---------------------------- MODULE Spec2Model ----------------------------
(***************************************************************************)
(* A model of src/src/bin/main.rs: the DHT22 single-wire reader            *)
(* (read_sensor, wait_for_state, read_byte), the Wi-Fi / DHCP bootstrap    *)
(* (connect_wifi, acquire_ip) and the read loop of main.                   *)
(*                                                                         *)
(* The program is one sequential thread; pc is its position.  Every        *)
(* statement that touches the line, the delay provider, the controller or  *)
(* the log is one action.  A whole wait_for_state call is one action: the  *)
(* environment chooses the poll at which the line first reads the target   *)
(* level (`arrival`, 0 = never) and the operator wait_for_state gives what *)
(* the bounded loop does with such a line.  Times are in microseconds.     *)
(***************************************************************************)
EXTENDS Integers, Sequences, FiniteSets

(* ------------------------------------------------------------------ *)
(* Program constants                                                  *)
(* ------------------------------------------------------------------ *)

\* for _ in 0..10_000
WAIT_POLLS == 10000
\* delay.delay_micros(1) after a failed poll
POLL_SLEEP_US == 1
\* delay.delay_millis(18), in microseconds
START_LOW_US == 18000
\* delay.delay_micros(48)
START_HIGH_US == 48
\* delay.delay_micros(30)
SAMPLE_OFFSET_US == 30
\* delay.delay_millis(2000), in microseconds
READ_PERIOD_US == 2000000
\* delay.delay_millis(1000) in connect_wifi, in microseconds
CONNECT_RETRY_US == 1000000
\* delay.delay_millis(200) in connect_wifi, in microseconds
LINK_POLL_US == 200000
\* delay.delay_millis(10) in acquire_ip, in microseconds
DHCP_POLL_US == 10000
\* for n in 0..8
BITS_PER_BYTE == 8
\* the five read_byte calls of read_sensor
FRAME_BYTES == 5

(* ------------------------------------------------------------------ *)
(* Bounds of the model                                                *)
(* ------------------------------------------------------------------ *)

\* Successful waits of one read_sensor call that needed more than one poll.
MaxSlow == 1

RECURSIVE Pow2(_)
Pow2(k) == IF k = 0 THEN 1 ELSE 2 * Pow2(k - 1)

(* ------------------------------------------------------------------ *)
(* Environment: what the sensor and the network may present           *)
(* ------------------------------------------------------------------ *)

\* The poll (1-based) at which the line first reads the awaited level;
\* 0 stands for a line that never does.
Arrivals == {0, 1, 2, WAIT_POLLS, WAIT_POLLS + 1}

HumidityHighs == {2, 255}
HumidityLows == {138, 255}
TemperatureHighs == {1, 128}
TemperatureLows == {5, 255}

\* What the sensor may put in the checksum position for data summing to s:
\* the right byte, or a byte damaged in its lowest or its highest bit.
ChecksumBytes(s) == {s % 256, (s + 1) % 256, (s + 128) % 256}

\* The frames the sensor may transmit.
Frames ==
    UNION { { <<q[1], q[2], q[3], q[4], c>> :
                c \in ChecksumBytes(q[1] + q[2] + q[3] + q[4]) } :
            q \in HumidityHighs \X HumidityLows \X TemperatureHighs \X TemperatureLows }

\* Bit j (0-based) of the transmission of frame f: bytes in order, each byte
\* most significant bit first (the sensor's wire format).
WireBit(f, j) == (f[(j \div 8) + 1] \div Pow2(7 - (j % 8))) % 2

\* Time one iface.poll takes in the read loop.
NetPollMicros == {0, 700}

\* The DHCP configurations the server may grant: one without a router, one with.
Leases == { [address |-> [address |-> "10.0.0.7", prefix_len |-> 24], router |-> "none"],
            [address |-> [address |-> "10.0.0.9", prefix_len |-> 16], router |-> "10.0.0.1"] }

(* ------------------------------------------------------------------ *)
(* Fixed-width arithmetic                                             *)
(* ------------------------------------------------------------------ *)

RECURSIVE BitOr(_, _)
BitOr(a, b) ==
    IF a = 0 THEN b
    ELSE IF b = 0 THEN a
    ELSE (IF a % 2 = 1 \/ b % 2 = 1 THEN 1 ELSE 0) + 2 * BitOr(a \div 2, b \div 2)

\* u8::wrapping_add
wrapping_add(a, b) == (a + b) % 256

\* (x as u16) << 8
Shl8U16(x) == (x * 256) % 65536


\* humidity_value as f32 / 10.0 formatted with {:.1}: a u16 count of tenths
\* prints as its whole part and one decimal digit.
FormatTenths(v) == [whole |-> v \div 10, tenth |-> v % 10]

(* ------------------------------------------------------------------ *)
(* State                                                              *)
(* ------------------------------------------------------------------ *)

VARIABLES
    pc,         \* position of the thread in main / connect_wifi / acquire_ip / read_sensor
    connected,  \* the last value controller.is_connected() returned Ok(true)
    addrs,      \* iface's IP addresses, each an address with its prefix length
    route,      \* iface's default IPv4 route ("none" when unset)
    ip,         \* the value acquire_ip returned ("none" before it returns)
    driven,     \* the level the host last wrote to the pin
    clock,      \* microseconds slept or spent since the last read_sensor call began
    seen,       \* the levels sampled by sensor.is_high() in this call, 1 = high
    n,          \* read_byte's loop variable
    byte,       \* read_byte's accumulator
    bytes,      \* the bytes the finished read_byte calls returned
    waits,      \* wait_for_state calls made in this call
    lastWait,   \* the most recent wait_for_state call: its line and what it did
    timeouts,   \* wait_for_state calls of this call that returned Err(Timeout)
    slow,       \* successful waits of this call that needed more than one poll
    compared,   \* this call evaluated `sum != checksum`
    outcome,    \* what the last read_sensor call returned: "None" before and while it runs
    sink,       \* the log records of this read cycle
    memo,       \* one earlier read_sensor call kept for comparison: what it saw and did
    lease,      \* the configuration of the DHCP Configured event acquire_ip received
    writes,     \* the levels the host wrote to the pin since the last read_sensor call began
    lastOp      \* the operation the thread performed last: its kind, argument, microseconds

vars == <<pc, connected, addrs, route, ip, driven, clock, seen, n, byte, bytes,
          waits, timeouts, lastWait, slow, compared, outcome, sink, memo, lease,
          writes, lastOp>>

netVars == <<connected, addrs, route, ip, lease>>
frameVars == <<seen, n, byte, bytes>>
waitVars == <<waits, timeouts, lastWait, slow>>

NoLease == [address |-> [address |-> "none", prefix_len |-> 0], router |-> "none"]

\* One operation on the pin, the delay provider, the controller, the network
\* stack or the log.
Op(kind, arg, us) == [kind |-> kind, arg |-> arg, us |-> us]

NoWait == [target |-> "None", arrival |-> 0, ok |-> TRUE, polls |-> 0, slept |-> 0]

\* No call is kept: state is "off" when calls are not compared, "none" when
\* none has been kept yet.
NoMemo(state) ==
    [state |-> state, seen |-> <<>>, waits |-> 0, timeouts |-> 0,
     outcome |-> "None", sink |-> <<>>]

InitCall ==
    /\ pc = "connect_wifi"
    /\ connected = FALSE
    /\ addrs = <<>>
    /\ route = "none"
    /\ ip = "none"
    /\ driven = "High"
    /\ clock = 0
    /\ seen = <<>>
    /\ n = 0
    /\ byte = 0
    /\ bytes = <<>>
    /\ waits = 0
    /\ timeouts = 0
    /\ lastWait = NoWait
    /\ slow = 0
    /\ compared = FALSE
    /\ outcome = "None"
    /\ sink = <<>>
    /\ lease = NoLease
    /\ writes = <<>>
    /\ lastOp = Op("none", "", 0)

Init == InitCall /\ memo = NoMemo("off")

\* The same start, with the comparison of calls switched on.
DetInit == InitCall /\ memo = NoMemo("none")

(* ------------------------------------------------------------------ *)
(* connect_wifi and acquire_ip                                        *)
(* ------------------------------------------------------------------ *)

frameAll == <<driven, clock, seen, n, byte, bytes, waits, timeouts, lastWait, slow,
              compared, outcome, sink, memo, writes>>

\* set_configuration and start, before the connect loop.
ConnectWifiBegin ==
    /\ pc = "connect_wifi"
    /\ lastOp' = Op("start", "", 0)
    /\ pc' = "connect"
    /\ UNCHANGED <<netVars, frameAll>>

\* Connect with `Err(e) => break`: a failed attempt leaves the loop as well.
Connect_Once ==
    /\ pc = "connect"
    /\ \E res \in {"Ok", "Err"} :
          /\ lastOp' = Op("connect", res, 0)
          /\ pc' = "is_connected"
    /\ UNCHANGED <<netVars, frameAll>>

\* One controller.connect(): Ok leaves the loop, Err logs and goes to the delay.
Connect ==
    /\ pc = "connect"
    /\ \E res \in {"Ok", "Err"} :
          /\ lastOp' = Op("connect", res, 0)
          /\ pc' = IF res = "Ok" THEN "is_connected" ELSE "connect_retry"
    /\ UNCHANGED <<netVars, frameAll>>

\* delay.delay_millis(1000), then the next connect.
ConnectRetryDelay ==
    /\ pc = "connect_retry"
    /\ lastOp' = Op("delay", "", CONNECT_RETRY_US)
    /\ pc' = "connect"
    /\ UNCHANGED <<netVars, frameAll>>

\* IsConnected testing is_connected().is_ok(): Ok(false) leaves the loop too.
IsConnected_AnyOk ==
    /\ pc = "is_connected"
    /\ \E res \in {"OkTrue", "OkFalse", "Err"} :
          /\ lastOp' = Op("is_connected", res, 0)
          /\ connected' = (res = "OkTrue")
          /\ pc' = IF res # "Err" THEN "iface_new" ELSE "link_delay"
    /\ UNCHANGED <<addrs, route, ip, lease, frameAll>>

\* One controller.is_connected(): only Ok(true) leaves the loop.
IsConnected ==
    /\ pc = "is_connected"
    /\ \E res \in {"OkTrue", "OkFalse", "Err"} :
          /\ lastOp' = Op("is_connected", res, 0)
          /\ connected' = (res = "OkTrue")
          /\ pc' = IF res = "OkTrue" THEN "iface_new" ELSE "link_delay"
    /\ UNCHANGED <<addrs, route, ip, lease, frameAll>>

\* delay.delay_millis(200), then the next is_connected.
LinkDelay ==
    /\ pc = "link_delay"
    /\ lastOp' = Op("delay", "", LINK_POLL_US)
    /\ pc' = "is_connected"
    /\ UNCHANGED <<netVars, frameAll>>

\* The interface, the DHCP socket and the socket set are built.
InterfaceNew ==
    /\ pc = "iface_new"
    /\ lastOp' = Op("iface_new", "", 0)
    /\ addrs' = <<>>
    /\ route' = "none"
    /\ pc' = "acquire_ip"
    /\ UNCHANGED <<connected, ip, lease, frameAll>>

\* iface.update_ip_addrs(|addrs| { addrs.clear(); addrs.push(IpCidr::Ipv4(cidr)) })
update_ip_addrs(old, cidr) == Append(SubSeq(old, 1, 0), cidr)

\* add_default_ipv4_route_Skipped: the lease's router is ignored.
add_default_ipv4_route_Skipped(old, router) == old

\* if let Some(router) = config.router { add_default_ipv4_route(router) }
add_default_ipv4_route(old, router) == IF router # "none" THEN router ELSE old

\* config.address.address(): the address of a CIDR block, without its prefix length
Ipv4Cidr_address(cidr) == cidr.address

\* One pass of acquire_ip's loop: iface.poll, then dhcp_socket.poll().
DhcpPoll ==
    /\ pc = "acquire_ip"
    /\ \/ /\ \E ev \in {"None", "Deconfigured"} :
                /\ lastOp' = Op("dhcp_poll", ev, 0)
                /\ pc' = "dhcp_delay"
          /\ UNCHANGED <<addrs, route, ip, lease>>
       \/ \E config \in Leases :
             /\ lease' = config
             /\ lastOp' = Op("dhcp_poll", "Configured", 0)
             /\ addrs' = update_ip_addrs(addrs, config.address)
             /\ route' = add_default_ipv4_route(route, config.router)
             /\ ip' = Ipv4Cidr_address(config.address)
             /\ pc' = "sensor_new"
    /\ UNCHANGED <<connected, frameAll>>

\* delay.delay_millis(10), then the next pass.
DhcpDelay ==
    /\ pc = "dhcp_delay"
    /\ lastOp' = Op("delay", "", DHCP_POLL_US)
    /\ pc' = "acquire_ip"
    /\ UNCHANGED <<netVars, frameAll>>

\* OutputOpenDrain::new(GPIO48, Level::High, Pull::None); the loop begins.
SensorNew ==
    /\ pc = "sensor_new"
    /\ lastOp' = Op("sensor_new", "High", 0)
    /\ driven' = "High"
    /\ pc' = "loop_sleep"
    /\ UNCHANGED <<netVars, clock, frameVars, waitVars, compared, outcome, sink, memo, writes>>

(* ------------------------------------------------------------------ *)
(* wait_for_state                                                     *)
(* ------------------------------------------------------------------ *)

\* wait_for_state with the loop written `for _ in 0..=10_000`: one poll too many.
wait_for_state_Inclusive(arrival) ==
    IF arrival \in 1..(WAIT_POLLS + 1)
    THEN [ok |-> TRUE, polls |-> arrival, slept |-> (arrival - 1) * POLL_SLEEP_US]
    ELSE [ok |-> FALSE, polls |-> WAIT_POLLS + 1,
          slept |-> (WAIT_POLLS + 1) * POLL_SLEEP_US]

\* wait_for_state with the sleep placed before the poll: every poll, the
\* successful one included, is preceded by a sleep.
wait_for_state_SleepFirst(arrival) ==
    IF arrival \in 1..WAIT_POLLS
    THEN [ok |-> TRUE, polls |-> arrival, slept |-> arrival * POLL_SLEEP_US]
    ELSE [ok |-> FALSE, polls |-> WAIT_POLLS, slept |-> WAIT_POLLS * POLL_SLEEP_US]

\* The bounded loop against a line that first reads the target level at poll
\* `arrival` (0 = never): polls 1, 2, ... each failed one followed by a sleep;
\* the first successful poll returns Ok, and WAIT_POLLS failed polls give
\* Err(Timeout).
wait_for_state(arrival) ==
    IF arrival \in 1..WAIT_POLLS
    THEN [ok |-> TRUE, polls |-> arrival, slept |-> (arrival - 1) * POLL_SLEEP_US]
    ELSE [ok |-> FALSE, polls |-> WAIT_POLLS, slept |-> WAIT_POLLS * POLL_SLEEP_US]

\* Question with the `?` left out: the Err is dropped and the code goes on.
Question_Dropped(r, next) == [pc |-> next, outcome |-> "None"]

\* Question with the Err only noted: the frame goes on after a failed wait.
Question_Noted(r, next) == [pc |-> next, outcome |-> IF r.ok THEN "None" ELSE "Timeout"]

\* The `?` after a call: Ok goes on at `next`, Err returns it from read_sensor.
Question(r, next) ==
    IF r.ok THEN [pc |-> next, outcome |-> "None"]
    ELSE [pc |-> "report", outcome |-> "Timeout"]

\* The lines the environment may present to the next wait.  When calls are
\* compared, every line answers at the first poll or not within the budget.
AllowedArrivals ==
    { a \in Arrivals : a \in 2..WAIT_POLLS => (slow < MaxSlow /\ memo.state = "off") }

\* The bookkeeping of one wait_for_state call for `target` on line `arrival`.
Waited(target, arrival, r) ==
    /\ lastWait' = [target |-> target, arrival |-> arrival, ok |-> r.ok,
                    polls |-> r.polls, slept |-> r.slept]
    /\ waits' = waits + 1
    /\ timeouts' = IF r.ok THEN timeouts ELSE timeouts + 1
    /\ slow' = IF r.ok /\ r.polls > 1 THEN slow + 1 ELSE slow
    /\ clock' = clock + r.slept
    /\ lastOp' = Op("wait", target, r.slept)

(* ------------------------------------------------------------------ *)
(* read_sensor                                                        *)
(* ------------------------------------------------------------------ *)

\* read_byte_entry with the accumulator kept in a static that is never zeroed.
read_byte_entry_Static(old) == old

\* let mut byte: u8 = 0, over whatever the storage held
read_byte_entry(old) == 0

\* sensor.set_low(): read_sensor begins.
SetLow ==
    /\ pc = "set_low"
    /\ lastOp' = Op("set_low", "", 0)
    /\ driven' = "Low"
    /\ clock' = 0
    /\ seen' = <<>>
    /\ n' = 0
    /\ bytes' = <<>>
    /\ waits' = 0
    /\ timeouts' = 0
    /\ lastWait' = NoWait
    /\ slow' = 0
    /\ compared' = FALSE
    /\ outcome' = "None"
    /\ sink' = <<>>
    /\ writes' = <<"Low">>
    /\ pc' = "start_hold"
    /\ UNCHANGED <<netVars, byte, memo>>

\* StartHold written delay.delay_micros(18): the start pulse lasts 18 us.
StartHold_Micros ==
    /\ pc = "start_hold"
    /\ lastOp' = Op("delay", "", START_LOW_US \div 1000)
    /\ clock' = clock + START_LOW_US \div 1000
    /\ pc' = "set_high"
    /\ UNCHANGED <<netVars, driven, frameVars, waitVars, compared, outcome, sink, memo, writes>>

\* delay.delay_millis(18)
StartHold ==
    /\ pc = "start_hold"
    /\ lastOp' = Op("delay", "", START_LOW_US)
    /\ clock' = clock + START_LOW_US
    /\ pc' = "set_high"
    /\ UNCHANGED <<netVars, driven, frameVars, waitVars, compared, outcome, sink, memo, writes>>

\* SetHigh with the write left out: the line is never released.
SetHigh_Missing ==
    /\ pc = "set_high"
    /\ lastOp' = Op("set_high", "", 0)
    /\ pc' = "release_hold"
    /\ UNCHANGED <<netVars, driven, clock, frameVars, waitVars, compared, outcome, sink,
                   memo, writes>>

\* sensor.set_high()
SetHigh ==
    /\ pc = "set_high"
    /\ lastOp' = Op("set_high", "", 0)
    /\ driven' = "High"
    /\ writes' = Append(writes, "High")
    /\ pc' = "release_hold"
    /\ UNCHANGED <<netVars, clock, frameVars, waitVars, compared, outcome, sink, memo>>

\* delay.delay_micros(48)
ReleaseHold ==
    /\ pc = "release_hold"
    /\ lastOp' = Op("delay", "", START_HIGH_US)
    /\ clock' = clock + START_HIGH_US
    /\ pc' = "sync_high"
    /\ UNCHANGED <<netVars, driven, frameVars, waitVars, compared, outcome, sink, memo, writes>>

\* wait_for_state(sensor, High)?
SyncHigh ==
    /\ pc = "sync_high"
    /\ \E arrival \in AllowedArrivals :
          LET r == wait_for_state(arrival) IN
          /\ Waited("High", arrival, r)
          /\ pc' = Question(r, "sync_low").pc
          /\ outcome' = Question(r, "sync_low").outcome
    /\ UNCHANGED <<netVars, driven, frameVars, compared, sink, memo, writes>>

\* wait_for_state(sensor, Low)?; then the first read_byte begins with a zero byte.
SyncLow ==
    /\ pc = "sync_low"
    /\ \E arrival \in AllowedArrivals :
          LET r == wait_for_state(arrival) IN
          /\ Waited("Low", arrival, r)
          /\ pc' = Question(r, "bit_high").pc
          /\ outcome' = Question(r, "bit_high").outcome
          /\ byte' = IF r.ok THEN read_byte_entry(byte) ELSE byte
    /\ UNCHANGED <<netVars, driven, seen, n, bytes, compared, sink, memo, writes>>

(* ------------------------------------------------------------------ *)
(* read_byte                                                          *)
(* ------------------------------------------------------------------ *)

\* let bit_mask = 1 << (7 - (n % 8)), with the bit order reversed
bit_mask_LsbFirst(k) == Pow2(k % 8) % 256

\* 1 << (7 - (n % 8)), as u8
bit_mask(k) == Pow2(7 - (k % 8)) % 256

\* The sampled levels s are the beginning of some frame's transmission.
OnTheWire(s) ==
    /\ Len(s) <= FRAME_BYTES * BITS_PER_BYTE
    /\ \E f \in Frames : \A j \in 1..Len(s) : s[j] = WireBit(f, j - 1)

\* wait_for_state(sensor, High)? at the top of the loop body
BitHigh ==
    /\ pc = "bit_high"
    /\ \E arrival \in AllowedArrivals :
          LET r == wait_for_state(arrival) IN
          /\ Waited("High", arrival, r)
          /\ pc' = Question(r, "bit_delay").pc
          /\ outcome' = Question(r, "bit_delay").outcome
    /\ UNCHANGED <<netVars, driven, frameVars, compared, sink, memo, writes>>

\* BitDelay with the delay left out: the line is sampled right at its rising edge.
BitDelay_Skipped ==
    /\ pc = "bit_delay"
    /\ pc' = "bit_sample"
    /\ UNCHANGED <<netVars, driven, clock, frameVars, waitVars, compared, outcome, sink,
                   memo, writes, lastOp>>

\* delay.delay_micros(30)
BitDelay ==
    /\ pc = "bit_delay"
    /\ lastOp' = Op("delay", "", SAMPLE_OFFSET_US)
    /\ clock' = clock + SAMPLE_OFFSET_US
    /\ pc' = "bit_sample"
    /\ UNCHANGED <<netVars, driven, frameVars, waitVars, compared, outcome, sink, memo, writes>>

\* let is_bit_1 = sensor.is_high(); if is_bit_1 { byte |= bit_mask }
BitSample ==
    /\ pc = "bit_sample"
    /\ \E level \in {0, 1} :
          /\ OnTheWire(Append(seen, level))
          /\ lastOp' = Op("sample", IF level = 1 THEN "High" ELSE "Low", 0)
          /\ seen' = Append(seen, level)
          /\ byte' = IF level = 1 THEN BitOr(byte, bit_mask(n)) ELSE byte
    /\ pc' = "bit_low"
    /\ UNCHANGED <<netVars, driven, clock, n, bytes, waitVars, compared,
                   outcome, sink, memo, writes>>

\* AfterByte reading one byte more than the frame holds.
AfterByte_OneMore(k) == IF k = FRAME_BYTES + 1 THEN "decode" ELSE "bit_high"

\* Where read_sensor goes on after read_byte returned its k-th byte.
AfterByte(k) == IF k = FRAME_BYTES THEN "decode" ELSE "bit_high"

\* wait_for_state(sensor, Low)? at the end of the loop body; after the eighth
\* bit read_byte returns Ok(byte) and read_sensor keeps it.
BitLow ==
    /\ pc = "bit_low"
    /\ \E arrival \in AllowedArrivals :
          LET r == wait_for_state(arrival)
              last == n + 1 = BITS_PER_BYTE
              next == IF last THEN AfterByte(Len(bytes) + 1) ELSE "bit_high"
          IN
          /\ Waited("Low", arrival, r)
          /\ pc' = Question(r, next).pc
          /\ outcome' = Question(r, next).outcome
          /\ IF r.ok /\ last
             THEN /\ bytes' = Append(bytes, byte)
                  /\ byte' = IF next = "bit_high" THEN read_byte_entry(byte) ELSE byte
                  /\ n' = 0
             ELSE /\ n' = IF r.ok THEN n + 1 ELSE n
                  /\ UNCHANGED <<byte, bytes>>
    /\ UNCHANGED <<netVars, driven, seen, compared, sink, memo, writes>>

(* ------------------------------------------------------------------ *)
(* read_sensor: conversion, checksum, report                          *)
(* ------------------------------------------------------------------ *)

\* Combine with the shift left out: (high as u16) | (low as u16).
Combine_NoShift(high, low) == BitOr(high, low)

\* Combine with the top bit of the high byte read as a sign, as the DHT22
\* data sheet encodes temperatures below zero.
Combine_SignMagnitude(high, low) ==
    IF high >= 128 THEN 0 - BitOr(Shl8U16(high - 128), low)
    ELSE BitOr(Shl8U16(high), low)

\* ((high as u16) << 8) | (low as u16)
Combine(high, low) == BitOr(Shl8U16(high), low)

\* humidity_high.wrapping_add(humidity_low).wrapping_add(..).wrapping_add(..)
Checksum(b) == wrapping_add(wrapping_add(wrapping_add(b[1], b[2]), b[3]), b[4])

\* ChecksumMismatch comparing as i8 magnitudes: the top bit is not compared.
ChecksumMismatch_Low7(sum, checksum) == (sum % 128) # (checksum % 128)

\* sum != checksum
ChecksumMismatch(sum, checksum) == sum # checksum

\* info!("Temperature: {:.1}°C", ..); info!("Humidity: {:.1}%", ..)
ReadingRecords(humidity_value, temperature_value) ==
    << [kind |-> "Temperature", value |-> FormatTenths(temperature_value)],
       [kind |-> "Humidity", value |-> FormatTenths(humidity_value)] >>

\* The rest of read_sensor once the five bytes are in.
Decode ==
    /\ pc = "decode"
    /\ lastOp' = Op("decode", "", 0)
    /\ LET humidity_value == Combine(bytes[1], bytes[2])
           temperature_value == Combine(bytes[3], bytes[4])
           sum == Checksum(bytes)
           checksum == bytes[5]
       IN
       /\ compared' = TRUE
       /\ IF ChecksumMismatch(sum, checksum)
          THEN /\ sink' = Append(sink, [kind |-> "ChecksumError",
                                        calculated |-> sum, received |-> checksum])
               /\ outcome' = "ChecksumError"
          ELSE /\ sink' = sink \o ReadingRecords(humidity_value, temperature_value)
               /\ outcome' = "Ok"
    /\ pc' = "report"
    /\ UNCHANGED <<netVars, driven, clock, frameVars, waitVars, memo, writes>>

(* ------------------------------------------------------------------ *)
(* main: the read loop                                                *)
(* ------------------------------------------------------------------ *)

\* LoopSleep on a fixed-rate timer: it sleeps only what is left of the period
\* since the last call began.
LoopSleep_FixedRate ==
    /\ pc = "loop_sleep"
    /\ lastOp' = Op("delay", "", IF clock < READ_PERIOD_US THEN READ_PERIOD_US - clock ELSE 0)
    /\ clock' = IF clock < READ_PERIOD_US THEN READ_PERIOD_US ELSE clock
    /\ pc' = "set_low"
    /\ UNCHANGED <<netVars, driven, frameVars, waitVars, compared, outcome, sink, memo, writes>>

\* delay.delay_millis(2000); then read_sensor is called.
LoopSleep ==
    /\ pc = "loop_sleep"
    /\ lastOp' = Op("delay", "", READ_PERIOD_US)
    /\ clock' = clock + READ_PERIOD_US
    /\ pc' = "set_low"
    /\ UNCHANGED <<netVars, driven, frameVars, waitVars, compared, outcome, sink, memo, writes>>

\* Report written read_sensor(..).unwrap(): an Err panics and main stops.
Report_Unwrap ==
    /\ pc = "report"
    /\ lastOp' = Op("match", outcome, 0)
    /\ pc' = IF outcome = "Ok" THEN "net_poll" ELSE "panic"
    /\ seen' = <<>>
    /\ n' = 0
    /\ bytes' = <<>>
    /\ waits' = 0
    /\ timeouts' = 0
    /\ lastWait' = NoWait
    /\ slow' = 0
    /\ compared' = FALSE
    /\ UNCHANGED <<netVars, driven, clock, byte, outcome, sink, memo, writes>>

\* The calls that are compared with later ones: the complete transmissions of
\* two frames, and the call whose first wait timed out.
Compared ==
    \/ /\ timeouts = 0
       /\ Len(seen) = FRAME_BYTES * BITS_PER_BYTE
       /\ \E q \in {<<2, 138, 1, 5, 146>>, <<255, 138, 128, 255, 5>>} :
             \A j \in 1..Len(seen) : seen[j] = WireBit(q, j - 1)
    \/ /\ timeouts = 1
       /\ waits = 1

\* match read_sensor(..) { Ok(_) => {}, Err(e) => info!("Reading failed: {:?}", e) }
\* read_sensor's locals are gone by now, and the record of its waits and
\* samples is dropped with them; `byte` keeps what the last read_byte left in it
\* until the next read_byte sets it to zero.  When calls are compared, the
\* call may be kept in memo.
Report ==
    /\ pc = "report"
    /\ lastOp' = Op("match", outcome, 0)
    /\ sink' = IF outcome = "Ok" THEN sink
               ELSE Append(sink, [kind |-> "ReadingFailed", error |-> outcome])
    /\ \E keep \in (IF memo.state = "none" /\ Compared THEN BOOLEAN ELSE {FALSE}) :
          memo' = IF keep
                  THEN [state |-> "kept", seen |-> seen, waits |-> waits,
                        timeouts |-> timeouts, outcome |-> outcome, sink |-> sink]
                  ELSE memo
    /\ seen' = <<>>
    /\ n' = 0
    /\ bytes' = <<>>
    /\ waits' = 0
    /\ timeouts' = 0
    /\ lastWait' = NoWait
    /\ slow' = 0
    /\ compared' = FALSE
    /\ pc' = "net_poll"
    /\ UNCHANGED <<netVars, driven, clock, byte, outcome, writes>>

\* NetPoll with the 2000 ms sleep placed before the loop instead of in it: the
\* next read_sensor call follows the poll at once.
NetPoll_NoSleep ==
    /\ pc = "net_poll"
    /\ \E d \in NetPollMicros :
          /\ clock' = clock + d
          /\ lastOp' = Op("net_poll", "", d)
    /\ pc' = "set_low"
    /\ UNCHANGED <<netVars, driven, frameVars, waitVars, compared, outcome, sink, memo, writes>>

\* iface.poll(timestamp, &mut wifi_device, &mut sockets)
NetPoll ==
    /\ pc = "net_poll"
    /\ \E d \in NetPollMicros :
          /\ clock' = clock + d
          /\ lastOp' = Op("net_poll", "", d)
    /\ pc' = "loop_sleep"
    /\ UNCHANGED <<netVars, driven, frameVars, waitVars, compared, outcome, sink, memo, writes>>

Next ==
    \/ ConnectWifiBegin \/ Connect \/ ConnectRetryDelay \/ IsConnected \/ LinkDelay
    \/ InterfaceNew \/ DhcpPoll \/ DhcpDelay \/ SensorNew
    \/ LoopSleep \/ SetLow \/ StartHold \/ SetHigh \/ ReleaseHold
    \/ SyncHigh \/ SyncLow \/ BitHigh \/ BitDelay \/ BitSample \/ BitLow
    \/ Decode \/ Report \/ NetPoll

Spec == Init /\ [][Next]_vars

\* The thread always runs: some step is taken whenever one is possible.
FairSpec == Spec /\ WF_vars(Next)

\* The program with the comparison of calls switched on.
DetSpec == DetInit /\ [][Next]_vars

(* ------------------------------------------------------------------ *)
(* Properties                                                         *)
(* ------------------------------------------------------------------ *)

\* The 40 levels the line shows at the sample points when frame q is sent.
Wire(q) == [j \in 1..(FRAME_BYTES * BITS_PER_BYTE) |-> WireBit(q, j - 1)]

\* read_sensor has just returned from a call in which no wait timed out and
\* the sampled levels were exactly the transmission of q.
Received(q) ==
    /\ pc = "report"
    /\ timeouts = 0
    /\ seen = Wire(q)

\* The records of this cycle that report a value.
ReadingsIn(log) == { i \in 1..Len(log) : log[i].kind \in {"Temperature", "Humidity"} }

\* The records of this cycle that report an error.
ErrorsIn(log) == { i \in 1..Len(log) : log[i].kind \in {"ChecksumError", "ReadingFailed"} }

\* The value record of the given kind for a raw count of tenths.
Shows(log, kind, tenths) ==
    \E i \in 1..Len(log) :
        /\ log[i].kind = kind
        /\ log[i].value.whole = tenths \div 10
        /\ log[i].value.tenth = tenths % 10

\* C1: for every quintuple (b0..b4) with b4 = (b0+b1+b2+b3) mod 256, a call that
\* is shown the handshake and exactly the 40 bits of the quintuple, every wait
\* satisfied within its budget, succeeds, and the reading it produces has
\* humidity (b0*256+b1)/10 and temperature (b2*256+b3)/10.
C1_ValidFrameRead ==
    \A q \in Frames :
        (Received(q) /\ q[5] = (q[1] + q[2] + q[3] + q[4]) % 256)
        => /\ outcome = "Ok"
           /\ Cardinality(ReadingsIn(sink)) = 2
           /\ Shows(sink, "Humidity", q[1] * 256 + q[2])
           /\ Shows(sink, "Temperature", q[3] * 256 + q[4])

\* C1 witness: the frame (0x02, 0x8A, 0x01, 0x05, 0x92) was received and read
\* as 65.0 % and 26.1 degrees.
C1_Witness ==
    /\ Received(<<2, 138, 1, 5, 146>>)
    /\ outcome = "Ok"
    /\ sink = << [kind |-> "Temperature", value |-> [whole |-> 26, tenth |-> 1]],
                 [kind |-> "Humidity", value |-> [whole |-> 65, tenth |-> 0]] >>

\* C2: for every fully received quintuple whose checksum byte differs from
\* (b0+b1+b2+b3) mod 256, read_sensor fails with the checksum error, and no
\* temperature or humidity is reported in that cycle.
C2_BadChecksumRejected ==
    /\ \A q \in Frames :
          (Received(q) /\ q[5] # (q[1] + q[2] + q[3] + q[4]) % 256)
          => outcome = "ChecksumError"
    /\ outcome = "ChecksumError" => ReadingsIn(sink) = {}

\* C2 witness: the frame (0x02, 0x8A, 0x01, 0x05, 0x93) was received and
\* rejected.
C2_Witness ==
    /\ Received(<<2, 138, 1, 5, 147>>)
    /\ outcome = "ChecksumError"
    /\ ReadingsIn(sink) = {}

\* C3: a wait whose line does not reach the awaited level fails with Timeout
\* after exactly 10,000 polls and 10,000 one-microsecond sleeps, and
\* read_sensor fails with it; no wait fails after fewer or more polls.
C3_TimeoutAfterCeiling ==
    /\ (lastWait.target # "None" /\ lastWait.arrival \notin 1..10000)
       => /\ ~lastWait.ok
          /\ pc = "report"
          /\ outcome = "Timeout"
    /\ ~lastWait.ok => (lastWait.polls = 10000 /\ lastWait.slept = 10000)
    /\ (lastWait.target # "None" /\ lastWait.arrival \in 1..10000) => lastWait.ok

\* C3 witness: a wait on a line that never reached the level has failed.
C3_Witness ==
    /\ lastWait.target = "Low"
    /\ lastWait.arrival = 0
    /\ lastWait.polls = 10000
    /\ outcome = "Timeout"
    /\ Len(seen) = 3

\* read_sensor is running.
InReadSensor ==
    pc \in {"start_hold", "set_high", "release_hold", "sync_high", "sync_low",
            "bit_high", "bit_delay", "bit_sample", "bit_low", "decode"}

\* C4 as claimed: whenever a read cycle starts after an earlier one, exactly
\* 2000 ms have passed since the earlier one started.
C4_FixedPeriod ==
    (pc = "set_low" /\ outcome # "None") => clock = 2000000

\* C4 as amended: whatever the outcome of a cycle, the loop sleeps exactly
\* 2000 ms before the next read_sensor call, so the time from the start of one
\* cycle to the start of the next is 2000 ms plus the time the earlier cycle
\* spent in read_sensor and the network poll (at least the 18 ms + 48 us start
\* pulse).
C4_PeriodPlusCycle ==
    [][pc = "loop_sleep"
         => /\ pc' = "set_low"
            /\ clock' = clock + 2000000
            /\ outcome # "None" => clock' >= 2000000 + 18000 + 48]_vars

\* C4 witness: a cycle starts after one that ended in a checksum error, more
\* than 2000 ms after that one started.
C4_Witness ==
    /\ pc = "set_low"
    /\ outcome = "ChecksumError"
    /\ clock > 2000000

\* C5: once the read loop runs it never exits: after every read cycle, whether
\* it ended in a reading, a Timeout or a checksum error, another read cycle is
\* eventually started.
C5_LoopNeverExits ==
    \A o \in {"Ok", "Timeout", "ChecksumError"} :
        (pc = "report" /\ outcome = o) ~> (pc = "set_low" /\ outcome = o)

\* C5 witness: a cycle is about to start after one that ended in Timeout.
C5_Witness ==
    /\ pc = "set_low"
    /\ outcome = "Timeout"
    /\ ErrorsIn(sink) # {}

\* C6: values are reported only from a fully assembled frame: a call that
\* reports temperature and humidity made its 82 waits with none timing out,
\* sampled 40 bits and found the checksum equal; a call in which a wait timed
\* out reports no value and never compares the checksum.
C6_OnlyFullFrames ==
    /\ (pc = "report" /\ ReadingsIn(sink) # {})
       => /\ waits = 82
          /\ timeouts = 0
          /\ Len(seen) = 40
          /\ Len(bytes) = 5
          /\ compared
          /\ bytes[5] = (bytes[1] + bytes[2] + bytes[3] + bytes[4]) % 256
    /\ (timeouts > 0 \/ outcome = "Timeout")
       => /\ ReadingsIn(sink) = {}
          /\ ~compared
          /\ outcome = "Timeout"

\* C6 witness: a call has returned a reading after 82 waits and 40 samples.
C6_Witness ==
    /\ pc = "report"
    /\ Cardinality(ReadingsIn(sink)) = 2
    /\ waits = 82
    /\ Len(seen) = 40
    /\ slow = 1

\* C7: each failed read cycle is reported exactly once: when main has handled
\* the result of a cycle that ended in Timeout or in a checksum error, exactly
\* one error record has been emitted for that cycle.
C7_ReportedOnce ==
    (pc = "net_poll" /\ outcome \in {"Timeout", "ChecksumError"})
    => Cardinality(ErrorsIn(sink)) = 1

\* main is in its read loop.
InReadLoop == InReadSensor \/ pc \in {"loop_sleep", "set_low", "report", "net_poll"}

\* C8 as claimed: the read cadence does not depend on the network bootstrap: in
\* every execution, also one where the Wi-Fi join never succeeds or no DHCP
\* lease is granted, the read loop eventually starts its first read cycle.
C8_CadenceWithoutNetwork == <>(pc = "set_low")

\* C8 as amended: the read loop runs only once the controller has reported the
\* link up and a DHCP lease has been configured; from there the first read
\* cycle is eventually started, and after every network poll of the loop the
\* next cycle is, whatever the network does.
C8_CadenceAfterBootstrap ==
    /\ [](InReadLoop => (connected /\ ip # "none" /\ Len(addrs) = 1 /\ addrs[1].address = ip))
    /\ (pc = "sensor_new") ~> (pc = "set_low")
    /\ (pc = "net_poll") ~> (pc = "set_low")

\* C8 witness: the first read cycle is about to start, the link up and the
\* lease with its router configured.
C8_Witness ==
    /\ pc = "set_low"
    /\ outcome = "None"
    /\ connected
    /\ ip = "10.0.0.9"
    /\ route = "10.0.0.1"

\* C10: every read_sensor call terminates: it makes at most 82 waits of at
\* most 10,000 polls each and then returns a reading, Timeout or a checksum
\* error.
C10_ReadSensorTerminates ==
    /\ [](waits <= 82 /\ lastWait.polls <= 10000)
    /\ InReadSensor ~> (pc = "report" /\ outcome \in {"Ok", "Timeout", "ChecksumError"})

\* C10 witness: a call has returned after all 82 waits, the last of them
\* taking all 10,000 polls.
C10_Witness ==
    /\ pc = "report"
    /\ waits = 82
    /\ lastWait.polls = 10000
    /\ lastWait.ok

\* C9: decoding is deterministic: a read_sensor call that saw the same line as
\* an earlier call (the same sampled levels, the same waits, the same timeout)
\* returns the same result and reports the same records, whatever happened in
\* the cycles before it.
C9_SameLineSameOutcome ==
    (pc = "report" /\ memo.state = "kept"
       /\ memo.seen = seen /\ memo.waits = waits /\ memo.timeouts = timeouts)
    => (memo.outcome = outcome /\ memo.sink = sink)

\* C9 witness: a later call has seen the same complete frame as the call that
\* was kept, and has returned the same reading.
C9_Witness ==
    /\ pc = "report"
    /\ memo.state = "kept"
    /\ memo.seen = seen
    /\ Len(seen) = 40
    /\ memo.timeouts = timeouts
    /\ outcome = "Ok"
    /\ memo.sink = sink

\* The samples s_0..s_7 taken for the i-th byte of this call.
SamplesOf(i) == SubSeq(seen, BITS_PER_BYTE * (i - 1) + 1, BITS_PER_BYTE * i)

\* s_0 * 2^7 + s_1 * 2^6 + ... + s_(k-1) * 2^(8-k) for a sequence of samples.
RECURSIVE MsbFirst(_, _)
MsbFirst(s, k) == IF k = 0 THEN 0 ELSE MsbFirst(s, k - 1) + s[k] * Pow2(BITS_PER_BYTE - k)

\* C13: every byte read_byte returned, all its sixteen waits having succeeded,
\* equals the sum over n = 0..7 of s_n * 2^(7-n), where s_n is the line value
\* sampled for bit n: the first bit sampled is the most significant.
C13_MsbFirst ==
    \A i \in 1..Len(bytes) :
        /\ Len(seen) >= BITS_PER_BYTE * i
        /\ bytes[i] = MsbFirst(SamplesOf(i), BITS_PER_BYTE)

\* C13 witness: a first byte sampled as 0,0,0,0,0,0,1,0 was returned as 0x02
\* and a second sampled as 1,0,0,0,1,0,1,0 as 0x8A.
C13_Witness ==
    /\ Len(bytes) = 2
    /\ SamplesOf(1) = <<0, 0, 0, 0, 0, 0, 1, 0>>
    /\ SamplesOf(2) = <<1, 0, 0, 0, 1, 0, 1, 0>>
    /\ bytes = <<2, 138>>

\* C16: a wait_for_state call whose line first reads the target level on poll
\* k, 1 <= k <= 10,000, returns Ok at that poll, having polled k times and
\* slept exactly k - 1 microseconds; when the line is at the target on the
\* first poll, no time passes.
C16_SleptPollsMinusOne ==
    [][ (lastOp'.kind = "wait" /\ lastWait'.arrival \in 1..10000)
        => /\ lastWait'.ok
           /\ lastWait'.polls = lastWait'.arrival
           /\ lastWait'.slept = lastWait'.arrival - 1
           /\ clock' - clock = lastWait'.arrival - 1
           /\ lastWait'.arrival = 1 => clock' = clock ]_vars

\* C16 witness: a wait for high succeeded on its last allowed poll, after
\* 9,999 microseconds of sleep.
C16_Witness ==
    /\ lastOp = Op("wait", "High", 9999)
    /\ lastWait.ok
    /\ lastWait.arrival = 10000
    /\ lastWait.polls = 10000

\* C17: the first wait that times out aborts the frame: read_sensor returns
\* Timeout at once, and between the failed wait and the caller's handling of
\* the result there is no further poll, sample, delay or write on the line; so
\* no call has more than one timed-out wait.
C17_FirstTimeoutAborts ==
    [][ /\ timeouts' <= 1
        /\ timeouts' = 1 => /\ pc' = "report"
                            /\ outcome' = "Timeout"
                            /\ lastOp'.kind = "wait"
                            /\ ~lastWait'.ok
        /\ timeouts = 1 => /\ lastOp'.kind = "match"
                           /\ lastOp'.arg = "Timeout"
                           /\ driven' = driven
                           /\ writes' = writes
                           /\ clock' = clock ]_vars

\* C17 witness: the wait for the rising edge of the second bit of the second
\* byte timed out, and the call returned with nine samples taken.
C17_Witness ==
    /\ timeouts = 1
    /\ pc = "report"
    /\ outcome = "Timeout"
    /\ lastWait.target = "High"
    /\ ~lastWait.ok
    /\ Len(seen) = 9
    /\ Len(bytes) = 1

\* The tenths of a degree shown by the temperature records of this cycle.
TemperatureTenths ==
    { sink[i].value.whole * 10 + sink[i].value.tenth :
        i \in { j \in 1..Len(sink) : sink[j].kind = "Temperature" } }

\* C18: the temperature is decoded as an unsigned 16-bit number: a successful
\* read reports (temperature_high * 256 + temperature_low) / 10, a value in
\* 0.0 .. 6553.5 that is never negative, and a frame whose temperature_high
\* has its top bit set yields a temperature of at least 3276.8.
C18_TemperatureUnsigned ==
    (pc = "report" /\ outcome = "Ok")
    => /\ TemperatureTenths = { bytes[3] * 256 + bytes[4] }
       /\ \A t \in TemperatureTenths :
             /\ t \in 0..65535
             /\ bytes[3] >= 128 => t >= 32768

\* C18 witness: a frame with temperature bytes 0x80, 0x05 was read as 3277.3.
C18_Witness ==
    /\ pc = "report"
    /\ outcome = "Ok"
    /\ bytes[3] = 128
    /\ bytes[4] = 5
    /\ TemperatureTenths = {32773}

\* connect_wifi is running.
InConnectWifi == pc \in {"connect_wifi", "connect", "connect_retry", "is_connected", "link_delay"}

\* C11: connect_wifi returns only when the controller has just reported
\* is_connected = Ok(true); every failed connect is followed by a 1000 ms delay
\* and another connect, without a limit on attempts; and after a connect that
\* returned Ok, every is_connected answer other than Ok(true) is followed by a
\* 200 ms delay and another is_connected.
C11_ConnectWifiBlocks ==
    [][ /\ (pc = "connect" /\ lastOp'.arg = "Err") => pc' = "connect_retry"
        /\ (pc = "connect" /\ lastOp'.arg = "Ok") => pc' = "is_connected"
        /\ pc = "connect_retry" => (lastOp' = Op("delay", "", 1000000) /\ pc' = "connect")
        /\ (pc = "is_connected" /\ lastOp'.arg # "OkTrue") => pc' = "link_delay"
        /\ pc = "link_delay" => (lastOp' = Op("delay", "", 200000) /\ pc' = "is_connected")
        /\ (InConnectWifi /\ ~InConnectWifi')
           => /\ pc = "is_connected"
              /\ lastOp' = Op("is_connected", "OkTrue", 0)
              /\ connected' ]_vars

\* C11 witness: connect_wifi has returned, the controller having answered
\* Ok(true).
C11_Witness ==
    /\ pc = "iface_new"
    /\ lastOp = Op("is_connected", "OkTrue", 0)
    /\ connected

\* C12: acquire_ip returns only after the DHCP socket delivered a Configured
\* event; at the return the interface holds exactly one IP address, the
\* leased one with its prefix length, the default IPv4 route is the lease's
\* router when the lease names one, and the value returned is the leased
\* address.
C12_AcquireIpReturn ==
    [][ (pc = "acquire_ip" /\ pc' # "dhcp_delay")
        => /\ pc' = "sensor_new"
           /\ lastOp' = Op("dhcp_poll", "Configured", 0)
           /\ lease' \in Leases
           /\ addrs' = << lease'.address >>
           /\ lease'.router # "none" => route' = lease'.router
           /\ lease'.router = "none" => route' = route
           /\ ip' = lease'.address.address ]_vars

\* C12 witness: acquire_ip has returned 10.0.0.9, the interface holding
\* 10.0.0.9/16 and the default route 10.0.0.1.
C12_Witness ==
    /\ pc = "sensor_new"
    /\ lastOp = Op("dhcp_poll", "Configured", 0)
    /\ ip = "10.0.0.9"
    /\ addrs = << [address |-> "10.0.0.9", prefix_len |-> 16] >>
    /\ route = "10.0.0.1"

\* The successful waits a call has made when it stands at `at` with `taken`
\* samples: the two of the handshake, two for every finished bit, and the
\* wait for high of the bit in progress.
WaitsAt(at, taken) ==
    IF at = "bit_high" THEN 2 + 2 * taken
    ELSE IF at = "bit_low" THEN 2 + 2 * (taken - 1) + 1
    ELSE 2 + 2 * taken + 1

\* C14: each bit is acquired strictly in the order wait for high, 30 us
\* sleep, one sample, wait for low: the sample is the only one of its bit and
\* is taken right after the 30 us sleep that follows the successful wait for
\* high, and the next bit's wait for high never starts before the current
\* bit's wait for low has succeeded.
C14_BitOrder ==
    [][ /\ pc = "bit_high"
           => /\ lastOp'.kind = "wait" /\ lastOp'.arg = "High"
              /\ seen' = seen
              /\ pc' = IF lastWait'.ok THEN "bit_delay" ELSE "report"
        /\ pc = "bit_delay"
           => /\ lastOp' = Op("delay", "", 30)
              /\ clock' = clock + 30
              /\ seen' = seen
              /\ pc' = "bit_sample"
        /\ pc = "bit_sample"
           => /\ lastOp'.kind = "sample"
              /\ Len(seen') = Len(seen) + 1
              /\ clock' = clock
              /\ pc' = "bit_low"
        /\ pc = "bit_low"
           => /\ lastOp'.kind = "wait" /\ lastOp'.arg = "Low"
              /\ seen' = seen
              /\ pc' \in (IF lastWait'.ok THEN {"bit_high", "decode"} ELSE {"report"})
        /\ pc' = "bit_high"
           => /\ pc \in {"sync_low", "bit_low"}
              /\ lastOp'.kind = "wait" /\ lastOp'.arg = "Low"
              /\ lastWait'.ok
        /\ pc' \in {"bit_high", "bit_delay", "bit_sample", "bit_low"}
           => waits' = WaitsAt(pc', Len(seen')) ]_vars

\* C14 witness: the third bit has been sampled, once, after its wait for high
\* and the sleep, and its wait for low is about to begin.
C14_Witness ==
    /\ pc = "bit_low"
    /\ lastOp.kind = "sample"
    /\ Len(seen) = 3
    /\ waits = 7
    /\ n = 2

\* C15: within one read_sensor call the operations come in the order: drive
\* the line low, hold 18 ms, release it high, hold 48 us, wait for high, wait
\* for low, then the five bytes in the order humidity-high, humidity-low,
\* temperature-high, temperature-low, checksum; no bit is sampled before both
\* handshake waits have succeeded.
C15_FrameOrder ==
    [][ /\ pc = "set_low"
           => (lastOp' = Op("set_low", "", 0) /\ driven' = "Low" /\ pc' = "start_hold")
        /\ pc = "start_hold"
           => (lastOp' = Op("delay", "", 18000) /\ clock' = clock + 18000
               /\ driven' = "Low" /\ pc' = "set_high")
        /\ pc = "set_high"
           => (lastOp' = Op("set_high", "", 0) /\ driven' = "High" /\ pc' = "release_hold")
        /\ pc = "release_hold"
           => (lastOp' = Op("delay", "", 48) /\ clock' = clock + 48 /\ pc' = "sync_high")
        /\ pc = "sync_high"
           => /\ lastOp'.kind = "wait" /\ lastOp'.arg = "High"
              /\ waits' = 1
              /\ pc' = IF lastWait'.ok THEN "sync_low" ELSE "report"
        /\ pc = "sync_low"
           => /\ lastOp'.kind = "wait" /\ lastOp'.arg = "Low"
              /\ waits' = 2
              /\ pc' = IF lastWait'.ok THEN "bit_high" ELSE "report"
        /\ seen' # seen /\ seen' # <<>> => (waits >= 3 /\ timeouts = 0)
        /\ pc \in {"set_low", "start_hold", "set_high", "release_hold", "sync_high",
                   "sync_low"} => (seen' = <<>> /\ bytes' = <<>>)
        /\ bytes' # bytes /\ bytes' # <<>>
           => /\ Len(seen) = BITS_PER_BYTE * Len(bytes')
              /\ seen' = seen
              /\ bytes' = Append(bytes, MsbFirst(SamplesOf(Len(bytes) + 1), BITS_PER_BYTE))
        /\ (pc = "decode" /\ outcome' = "Ok")
           => /\ Len(bytes) = 5
              /\ Shows(sink', "Humidity", bytes[1] * 256 + bytes[2])
              /\ Shows(sink', "Temperature", bytes[3] * 256 + bytes[4])
              /\ bytes[5] = (bytes[1] + bytes[2] + bytes[3] + bytes[4]) % 256
        /\ (pc = "decode" /\ outcome' # "Ok")
           => /\ Len(bytes) = 5
              /\ bytes[5] # (bytes[1] + bytes[2] + bytes[3] + bytes[4]) % 256 ]_vars

\* C15 witness: the start pulse, the handshake and the five bytes are done:
\* 82 waits have succeeded, 40 bits are sampled, and the frame
\* (0xFF, 0x8A, 0x80, 0xFF, 0x88) is about to be decoded.
C15_Witness ==
    /\ pc = "decode"
    /\ waits = 82
    /\ timeouts = 0
    /\ Len(seen) = 40
    /\ bytes = <<255, 138, 128, 255, 136>>

\* C19: every iteration of main's loop performs, in this order, a 2000 ms
\* sleep, exactly one read_sensor call, the handling of its outcome, and one
\* network poll; so the first start pulse comes no earlier than 2000 ms after
\* the loop begins, and a sleep of at least 2000 ms lies between the end of
\* one cycle and the start pulse of the next.
C19_IterationOrder ==
    [][ /\ pc = "loop_sleep"
           => /\ lastOp' = Op("delay", "", 2000000)
              /\ clock' = clock + 2000000
              /\ pc' = "set_low"
        /\ pc' = "set_low"
           => /\ pc = "loop_sleep"
              /\ lastOp' = Op("delay", "", 2000000)
        /\ pc = "set_low" => (InReadSensor' /\ lastOp'.kind = "set_low")
        /\ InReadSensor => (InReadSensor' \/ pc' = "report")
        /\ pc' = "report" => InReadSensor
        /\ pc = "report"
           => /\ lastOp' = Op("match", outcome, 0)
              /\ (outcome # "Ok") = (Len(sink') = Len(sink) + 1)
              /\ pc' = "net_poll"
        /\ pc = "net_poll"
           => /\ lastOp'.kind = "net_poll"
              /\ pc' = "loop_sleep"
        /\ pc' = "loop_sleep" => pc \in {"sensor_new", "net_poll"} ]_vars

\* C19 witness: an iteration whose read_sensor call timed out has reported
\* the failure and finished its network poll; the next sleep is about to begin.
C19_Witness ==
    /\ pc = "loop_sleep"
    /\ lastOp = Op("net_poll", "", 700)
    /\ outcome = "Timeout"
    /\ Len(sink) = 1
    /\ sink[1].kind = "ReadingFailed"

\* C20: the host drives the line only during the start pulse: a call makes
\* exactly one set_low followed by exactly one set_high, both before any poll
\* or sample, and never writes afterwards; at every return of read_sensor and
\* between cycles the host's last write is set_high; the network poll never
\* touches the line.
C20_WritesOnlyInStartPulse ==
    [][ /\ (driven' # driven \/ writes' # writes) => pc \in {"sensor_new", "set_low", "set_high"}
        /\ pc = "set_low" => (writes' = <<"Low">> /\ driven' = "Low")
        /\ pc = "set_high" => (writes = <<"Low">> /\ writes' = <<"Low", "High">>
                               /\ driven' = "High")
        /\ pc = "set_low" => (waits' = 0 /\ seen' = <<>>)
        /\ (waits' > 0 \/ seen' # <<>>) => (writes' = <<"Low", "High">> /\ driven' = "High")
        /\ pc' = "report" => (writes' = <<"Low", "High">> /\ driven' = "High")
        /\ pc' \in {"loop_sleep", "set_low", "net_poll"} => driven' = "High"
        /\ pc = "net_poll" => (driven' = driven /\ writes' = writes) ]_vars

\* C20 witness: a call that read a whole frame has returned Ok, having written
\* low once and then high once; the line is released.
C20_Witness ==
    /\ pc = "report"
    /\ outcome = "Ok"
    /\ writes = <<"Low", "High">>
    /\ driven = "High"
    /\ lastOp.kind = "decode"

=============================================================================
